---- MODULE Spec2Model ----
(***************************************************************************)
(* Pins ("immovable roots") of components/script/dom/bindings/pin.rs:      *)
(* the thread-local list PINNED_TRACEABLES of pinned cells, the Pin handle *)
(* that owns one PinCell, and the UntracedFrom conversions.                *)
(*                                                                         *)
(* A raw pointer *const PinCell is modelled as a triple <<t, addr, id>>; t *)
(* is the thread whose stack holds the cell and addr the place of the      *)
(* owning Pin on that stack (its depth), which is all the machine sees; id *)
(* is the serial number of the cell the pointer was taken from, kept only  *)
(* to tell a pointer to a destroyed cell from a pointer to the cell that   *)
(* now lives at the same place.                                            *)
(***************************************************************************)
EXTENDS Integers, Sequences, FiniteSets, TLC

\* ------------------------------------------------------------------ bounds
MaxHandles == 3      \* live Pin handles of the thread of Spec
MaxCells == 3        \* cells that thread ever creates
MaxHandlesEach == 1  \* the same two, for each thread of SpecThreads
MaxCellsEach == 1
NumSlots == 1        \* traced slots of a thread
MaxLen == 3          \* length of a converted sequence
NumObjs == 2         \* heap objects the converted handles refer to

\* PINNED_TRACEABLES is one thread_local per thread; two threads show every
\* pair of them.
Threads == {1, 2}
Slots == 1..NumSlots
Objs == 1..NumObjs

\* ------------------------------------------------------------ plain values
\* A raw pointer to the cell of the Pin at place addr of thread t's stack.
PtrTo(t, addr, id) == <<t, addr, id>>

\* Option::None of a raw cell pointer.
None == <<0, 0, 0>>

\* A borrowed heap object &T and a Dom<T> handle to it.
Ref(o) == [kind |-> "ref", obj |-> o]
Dom(o) == [kind |-> "dom", obj |-> o]

\* Default::default() of the pinned type Vec<Dom<T>>: Vec::new().
UntracedDefault == <<>>

\* mem::replace(traced, T::untraced_default()): the old content is returned
\* and the default is left in the traced slot.
UntracedFrom_mutCopy(v) == [ret |-> v, left |-> v]
UntracedFrom_mut(v) == [ret |-> v, left |-> UntracedDefault]

\* Option<PinCell<T>>::None, the slot of a Pin that was never written.
\* Of a cell, id, linked and before are history only: its serial number,
\* whether pin() has run on it, and the head and chain seen immediately
\* before it was linked.
NoBefore == [head |-> None, chain |-> <<>>]
NoCell == [some |-> FALSE, prev |-> None, value |-> <<>>,
           id |-> 0, linked |-> FALSE, before |-> NoBefore]

\* Pin::new(): a handle with an empty slot.
Pin_new == [cell |-> NoCell]

\* PinCell::new(untraced): prev is None until the cell is linked.
PinCell_new(untraced, id) ==
    [some |-> TRUE, prev |-> None, value |-> untraced,
     id |-> id, linked |-> FALSE, before |-> NoBefore]

VARIABLES
    PINNED_TRACEABLES,  \* per thread: [init, head], RefCell<Option<Option<ptr>>>
    pins,               \* per thread: the stack of live Pin handles, oldest first
    slots,              \* per thread: the traced slots values are moved out of
    nextId,             \* per thread: serial number of the next cell
    nested,             \* per thread: every destruction so far respected nesting
    contract,           \* per thread: initialize came first, one write per handle
    aborted,            \* the process died of a panic while panicking
    last,               \* the operation that led to this state and its outcome
    traced,             \* conversion input (a slice of objects or of Dom handles)
    untraced            \* conversion output

vars == <<PINNED_TRACEABLES, pins, slots, nextId, nested, contract, aborted, last, traced, untraced>>

\* ----------------------------------------------------------- chain reading
\* thread_local!: the registry a thread reaches is its own.
RegShared(t) == 1
Reg(t) == t

Initialized(t) == PINNED_TRACEABLES[Reg(t)].init
HeadOf(t) == PINNED_TRACEABLES[Reg(t)].head

\* What lies at the place a pointer names.
CellAt(p) ==
    IF p[1] \in Threads /\ p[2] \in 1..Len(pins[p[1]]) THEN pins[p[1]][p[2]].cell ELSE NoCell

\* The pointer refers to a cell that still exists (and is that very cell).
Valid(p) == /\ p # None
            /\ CellAt(p).some
            /\ CellAt(p).id = p[3]

\* The pointers met walking from p along prev, stopping after the first
\* pointer that does not refer to an existing cell.
RECURSIVE PtrsFrom(_, _)
PtrsFrom(p, fuel) ==
    IF p = None \/ fuel = 0 THEN <<>>
    ELSE IF ~Valid(p) THEN <<p>>
    ELSE <<p>> \o PtrsFrom(CellAt(p).prev, fuel - 1)

\* A chain of existing cells is no longer than the number of live handles.
WalkFuel == Len(pins[1]) + Len(pins[2]) + 1
ChainPtrs(t) == PtrsFrom(HeadOf(t), WalkFuel)
ChainIds(t) == [i \in 1..Len(ChainPtrs(t)) |-> ChainPtrs(t)[i][3]]

\* Serial numbers of the cells that exist and were linked, newest first.
LiveIds(t) == { pins[t][a].cell.id :
                  a \in { b \in 1..Len(pins[t]) : pins[t][b].cell.some /\ pins[t][b].cell.linked } }
RECURSIVE Descending(_, _)
Descending(S, n) ==
    IF n = 0 THEN <<>>
    ELSE (IF n \in S THEN <<n>> ELSE <<>>) \o Descending(S, n - 1)
LivePinned(t) == Descending(LiveIds(t), nextId[t])

\* ------------------------------------------------------------------- trace
\* What a read through a pointer to a destroyed cell may find: the cell that
\* now lives at that place (its prev is followed), or an empty link.
GarbageNext(p) ==
    {None} \cup (IF CellAt(p).some THEN {CellAt(p).prev} ELSE {})

\* The runs of the loop of trace from head p: the pointers whose value was
\* traced, in order, and how the loop ended.  A pointer to a destroyed cell
\* is undefined behaviour: the loop crashes, or traces what it finds there.
\* A loop that has not ended after fuel steps never ends.
RECURSIVE TraceRuns(_, _)
TraceRuns(p, fuel) ==
    IF p = None THEN {[visits |-> <<>>, res |-> "ok"]}
    ELSE IF fuel = 0 THEN {[visits |-> <<>>, res |-> "diverge"]}
    ELSE IF Valid(p)
         THEN { [r EXCEPT !.visits = <<p>> \o @] :
                  r \in TraceRuns(CellAt(p).prev, fuel - 1) }
         ELSE {[visits |-> <<>>, res |-> "crash"]} \cup
              { [r EXCEPT !.visits = <<p>> \o @] :
                  r \in UNION { TraceRuns(q, fuel - 1) : q \in GarbageNext(p) } }

TraceFuel(t) == Len(pins[t]) + 2

\* ----------------------------------------------------------- registry code
\* PinCell::pin storing this in the head without saving the old head.
PinCell_pinNoPrev(head, cell, this) ==
    [cell |-> [cell EXCEPT !.linked = TRUE,
                           !.before = [head |-> head, chain |-> PtrsFrom(head, WalkFuel)]],
     head |-> this]

\* PinCell::pin: self.prev = mem::replace(head, Some(this)).
PinCell_pin(head, cell, this) ==
    [cell |-> [cell EXCEPT !.prev = head, !.linked = TRUE,
                           !.before = [head |-> head, chain |-> PtrsFrom(head, WalkFuel)]],
     head |-> this]

\* Drop for PinCell: the head becomes self.prev.
PinCell_dropKeep(head, cell) == head
PinCell_drop(head, cell) == cell.prev

\* The cell of handle h is destroyed while no cell linked after it still
\* exists in an enclosing scope (the scopes nested in h are left before it).
RespectsNesting(t, h) ==
    \A a \in 1..(h - 1) :
        LET c == pins[t][a].cell
        IN  ~(c.some /\ c.linked /\ c.id > pins[t][h].cell.id)

Outcome(op, t, arg, res, visits) ==
    [op |-> op, t |-> t, arg |-> arg, res |-> res, visits |-> visits]

\* ----------------------------------------------------------------- actions
\* initialize() with the assertion left out.
initializeSilently(t) ==
    /\ ~aborted
    /\ PINNED_TRACEABLES' = [PINNED_TRACEABLES EXCEPT ![Reg(t)] = [init |-> TRUE, head |-> None]]
    /\ last' = Outcome("initialize", t, 0, "ok", <<>>)
    /\ UNCHANGED <<pins, slots, nextId, nested, contract, aborted, traced, untraced>>

\* initialize() storing None where Some(None) is meant.
initializeToNone(t) ==
    /\ ~aborted
    /\ IF Initialized(t)
       THEN /\ last' = Outcome("initialize", t, 0, "panic", <<>>)
            /\ UNCHANGED PINNED_TRACEABLES
       ELSE /\ PINNED_TRACEABLES' = [PINNED_TRACEABLES EXCEPT ![Reg(t)] = [init |-> FALSE, head |-> None]]
            /\ last' = Outcome("initialize", t, 0, "ok", <<>>)
    /\ UNCHANGED <<pins, slots, nextId, nested, contract, aborted, traced, untraced>>

\* initialize(): assert!(cell.is_none()); *cell = Some(None).
initialize(t) ==
    /\ ~aborted
    /\ IF Initialized(t)
       THEN /\ last' = Outcome("initialize", t, 0, "panic", <<>>)
            /\ UNCHANGED PINNED_TRACEABLES
       ELSE /\ PINNED_TRACEABLES' = [PINNED_TRACEABLES EXCEPT ![Reg(t)] = [init |-> TRUE, head |-> None]]
            /\ last' = Outcome("initialize", t, 0, "ok", <<>>)
    /\ UNCHANGED <<pins, slots, nextId, nested, contract, aborted, traced, untraced>>

\* trace() reading an uninitialized registry as an empty chain.
traceOrEmpty(t) ==
    /\ ~aborted
    /\ IF ~Initialized(t)
       THEN last' = Outcome("trace", t, 0, "ok", <<>>)
       ELSE \E r \in TraceRuns(HeadOf(t), TraceFuel(t)) :
                last' = Outcome("trace", t, 0, r.res, r.visits)
    /\ contract' = [contract EXCEPT ![t] = @ /\ Initialized(t)]
    /\ UNCHANGED <<PINNED_TRACEABLES, pins, slots, nextId, nested, aborted, traced, untraced>>

\* trace() taking the head out of the registry instead of copying it.
traceTaking(t) ==
    /\ ~aborted
    /\ Initialized(t)
    /\ \E r \in TraceRuns(HeadOf(t), TraceFuel(t)) :
           last' = Outcome("trace", t, 0, r.res, r.visits)
    /\ PINNED_TRACEABLES' = [PINNED_TRACEABLES EXCEPT ![Reg(t)].head = None]
    /\ UNCHANGED <<pins, slots, nextId, nested, contract, aborted, traced, untraced>>

\* trace(tracer): cell.unwrap() panics before initialize; otherwise the loop
\* runs on a copy of the head.
trace(t) ==
    /\ ~aborted
    /\ IF ~Initialized(t)
       THEN last' = Outcome("trace", t, 0, "panic", <<>>)
       ELSE \E r \in TraceRuns(HeadOf(t), TraceFuel(t)) :
                last' = Outcome("trace", t, 0, r.res, r.visits)
    /\ contract' = [contract EXCEPT ![t] = @ /\ Initialized(t)]
    /\ UNCHANGED <<PINNED_TRACEABLES, pins, slots, nextId, nested, aborted, traced, untraced>>

\* A scope is entered and creates its handle: let mut pin = Pin::new().
NewPin(t) ==
    /\ ~aborted
    /\ pins' = [pins EXCEPT ![t] = Append(@, Pin_new)]
    /\ last' = Outcome("new", t, Len(pins[t]) + 1, "ok", <<>>)
    /\ UNCHANGED <<PINNED_TRACEABLES, slots, nextId, nested, contract, aborted, traced, untraced>>

\* The head after self.cell = Some(..) of Pin::pin: the assignment drops the
\* cell the handle held, if any.  The first is the assignment overwriting
\* the old cell without dropping it.
HeadAfterAssignLeak(t, h) == HeadOf(t)
HeadAfterAssign(t, h) ==
    IF pins[t][h].cell.some THEN PinCell_drop(HeadOf(t), pins[t][h].cell) ELSE HeadOf(t)

\* Pin::pin(traced) with traced = &mut slots[t][s] (scalar transfer):
\*   self.cell = Some(PinCell::new(T::untraced_from(traced)));   drops the old cell
\*   self.cell.as_mut().unwrap().pin()
Pin_pin(t, h, s) ==
    LET conv == UntracedFrom_mut(slots[t][s])
        id == nextId[t]
        old == pins[t][h].cell
        new == PinCell_new(conv.ret, id)
        head1 == HeadAfterAssign(t, h)
        dropped == IF old.some THEN <<PtrTo(t, h, old.id)>> ELSE <<>>
        lnk == PinCell_pin(head1, new, PtrTo(t, h, id))
    IN
    /\ ~aborted
    /\ h \in 1..Len(pins[t])
    /\ s \in Slots
    /\ nextId' = [nextId EXCEPT ![t] = id + 1]
    /\ contract' = [contract EXCEPT ![t] = @ /\ Initialized(t) /\ ~old.some]
    /\ IF Initialized(t)
       THEN /\ slots' = [slots EXCEPT ![t][s] = conv.left]
            /\ pins' = [pins EXCEPT ![t][h].cell = lnk.cell]
            /\ PINNED_TRACEABLES' = [PINNED_TRACEABLES EXCEPT ![Reg(t)].head = lnk.head]
            /\ nested' = [nested EXCEPT ![t] =
                             @ /\ (old.some => \A a \in 1..Len(pins[t]) :
                                     ~(pins[t][a].cell.linked /\ pins[t][a].cell.id > old.id))]
            /\ last' = Outcome("pin", t, s, "ok", <<PtrTo(t, h, id)>> \o dropped)
            /\ UNCHANGED aborted
       ELSE IF ~old.some
       THEN \* the new cell is stored, then pin() panics in unwrap()
            /\ slots' = [slots EXCEPT ![t][s] = conv.left]
            /\ pins' = [pins EXCEPT ![t][h].cell = new]
            /\ last' = Outcome("pin", t, s, "panic", <<>>)
            /\ UNCHANGED <<PINNED_TRACEABLES, nested, aborted>>
       ELSE \* drop of the old cell panics, then drop of the new one: abort
            /\ aborted' = TRUE
            /\ last' = Outcome("pin", t, s, "abort", <<>>)
            /\ UNCHANGED <<PINNED_TRACEABLES, pins, slots, nested>>
    /\ UNCHANGED <<traced, untraced>>

\* The handles of the k innermost scopes, and those that own a cell.
Leaving(t, k) == (Len(pins[t]) - k + 1)..Len(pins[t])
Owning(t, k) == { h \in Leaving(t, k) : pins[t][h].cell.some }

\* The head after the Pins at places h down to lo were dropped, innermost
\* first, each running Drop for PinCell on the cell it owns, if any.
RECURSIVE HeadAfterDrops(_, _, _, _)
HeadAfterDrops(t, h, lo, head) ==
    IF h < lo THEN head
    ELSE HeadAfterDrops(t, h - 1, lo,
             IF pins[t][h].cell.some THEN PinCell_drop(head, pins[t][h].cell) ELSE head)

\* The cells destroyed on the way, innermost first.
RECURSIVE Destroyed(_, _, _)
Destroyed(t, h, lo) ==
    IF h < lo THEN <<>>
    ELSE (IF pins[t][h].cell.some THEN <<PtrTo(t, h, pins[t][h].cell.id)>> ELSE <<>>)
         \o Destroyed(t, h - 1, lo)

\* Drop for PinCell unlinking as a list removal would: the prev of a
\* surviving cell that pointed to a destroyed cell is moved past it.
RemainingPatched(t, k) ==
    [a \in 1..(Len(pins[t]) - k) |->
        LET c == pins[t][a].cell
        IN  IF c.some /\ c.prev # None /\ c.prev[2] \in Leaving(t, k)
            THEN [cell |-> [c EXCEPT !.prev = CellAt(c.prev).prev]]
            ELSE pins[t][a]]

\* The handles that remain when the k innermost scopes are left; Drop for
\* PinCell writes to the head alone, never to another cell.
Remaining(t, k) == SubSeq(pins[t], 1, Len(pins[t]) - k)

\* The k innermost scopes are left at once (return, early return or unwind):
\* their Pins are dropped, innermost first.  Before initialize, Drop for
\* PinCell panics in unwrap(); a second panic while unwinding aborts.
ExitScopes(t, k) ==
    LET top == Len(pins[t])
        lo == top - k + 1
    IN
    /\ ~aborted
    /\ k \in 1..top
    /\ contract' = [contract EXCEPT ![t] = @ /\ (Owning(t, k) # {} => Initialized(t))]
    /\ \/ /\ Owning(t, k) = {} \/ Initialized(t)
          /\ pins' = [pins EXCEPT ![t] = Remaining(t, k)]
          /\ PINNED_TRACEABLES' =
                IF Owning(t, k) = {} THEN PINNED_TRACEABLES
                ELSE [PINNED_TRACEABLES EXCEPT ![Reg(t)].head = HeadAfterDrops(t, top, lo, HeadOf(t))]
          /\ nested' = [nested EXCEPT ![t] = @ /\ \A h \in Owning(t, k) : RespectsNesting(t, h)]
          /\ last' = Outcome("exit", t, k, "ok", Destroyed(t, top, lo))
          /\ UNCHANGED aborted
       \/ /\ Cardinality(Owning(t, k)) = 1 /\ ~Initialized(t)
          /\ pins' = [pins EXCEPT ![t] = Remaining(t, k)]
          /\ last' = Outcome("exit", t, k, "panic", <<>>)
          /\ UNCHANGED <<PINNED_TRACEABLES, nested, aborted>>
       \/ /\ Owning(t, k) # {} /\ ~Initialized(t)
          /\ aborted' = TRUE
          /\ last' = Outcome("exit", t, k, "abort", <<>>)
          /\ UNCHANGED <<PINNED_TRACEABLES, pins, nested>>
    /\ UNCHANGED <<slots, nextId, traced, untraced>>

\* ------------------------------------------------------------- conversions
\* Dom::from_ref(&T) (dom::bindings::root): a new handle to the same object.
Dom_from_ref(r) == Dom(r.obj)

\* &**traced for traced: &Dom<T>: the object the handle refers to.
Deref(d) == Ref(d.obj)

\* impl UntracedFrom<&T> for Dom<T>.
UntracedFrom_ref(x) == Dom_from_ref(x)

\* impl UntracedFrom<&Dom<T>> for Dom<T>.
UntracedFrom_dom(d) == Dom_from_ref(Deref(d))

\* T::untraced_from(x) of the slice conversion, resolved on the element type.
UntracedFrom_elem(x) == IF x.kind = "ref" THEN UntracedFrom_ref(x) ELSE UntracedFrom_dom(x)

\* traced.iter().map(|x| T::untraced_from(x)).collect(): the iterator is
\* consumed from the front and each result is pushed to the new Vec.
RECURSIVE Collect(_, _)
Collect(iter, vec) ==
    IF iter = <<>> THEN vec
    ELSE Collect(Tail(iter), Append(vec, UntracedFrom_elem(iter[1])))

UntracedFrom_sliceReversed(seq) ==
    [i \in 1..Len(seq) |-> UntracedFrom_elem(seq[Len(seq) + 1 - i])]
UntracedFrom_slice(seq) == Collect(seq, <<>>)

SeqsOf(S) == UNION { [1..n -> S] : n \in 0..MaxLen }
RefSlices == SeqsOf({ Ref(o) : o \in Objs })
DomSlices == SeqsOf({ Dom(o) : o \in Objs })

\* untraced_from(&mut traced) on a traced Vec<Dom<T>>.
ConvertMut ==
    /\ traced \in DomSlices
    /\ traced' = UntracedFrom_mut(traced).left
    /\ untraced' = UntracedFrom_mut(traced).ret
    /\ last' = Outcome("from_mut", 0, 0, "ok", <<>>)
    /\ UNCHANGED <<PINNED_TRACEABLES, pins, slots, nextId, nested, contract, aborted>>

\* The slice conversion emptying its source as the scalar transfer does.
ConvertSliceMoving ==
    /\ untraced' = UntracedFrom_slice(traced)
    /\ traced' = UntracedDefault
    /\ last' = Outcome("from_slice", 0, 0, "ok", <<>>)
    /\ UNCHANGED <<PINNED_TRACEABLES, pins, slots, nextId, nested, contract, aborted>>

\* untraced_from(&traced[..]) on a slice of objects or of Dom handles.
ConvertSlice ==
    /\ untraced' = UntracedFrom_slice(traced)
    /\ last' = Outcome("from_slice", 0, 0, "ok", <<>>)
    /\ UNCHANGED <<traced, PINNED_TRACEABLES, pins, slots, nextId, nested, contract, aborted>>

\* untraced_from(&traced[i]) on one borrowed object or Dom handle.
ConvertElem(i) ==
    /\ i \in 1..Len(traced)
    /\ untraced' = <<UntracedFrom_elem(traced[i])>>
    /\ last' = Outcome("from_elem", 0, i, "ok", <<>>)
    /\ UNCHANGED <<traced, PINNED_TRACEABLES, pins, slots, nextId, nested, contract, aborted>>

\* ---------------------------------------------------------- specifications
InitPins ==
    /\ PINNED_TRACEABLES = [t \in Threads |-> [init |-> FALSE, head |-> None]]
    /\ pins = [t \in Threads |-> <<>>]
    /\ slots = [t \in Threads |-> [s \in Slots |-> <<Dom(s)>>]]
    /\ nextId = [t \in Threads |-> 1]
    /\ nested = [t \in Threads |-> TRUE]
    /\ contract = [t \in Threads |-> TRUE]
    /\ aborted = FALSE
    /\ last = Outcome("none", 0, 0, "ok", <<>>)

Init ==
    /\ InitPins
    /\ traced = <<>>
    /\ untraced = <<>>

\* One thread's operations, with at most maxH live handles and maxC cells,
\* writing from the traced slots S.
Step(t, maxH, maxC, S) ==
    \/ initialize(t)
    \/ trace(t)
    \/ Len(pins[t]) < maxH /\ NewPin(t)
    \/ \E h \in 1..maxH, s \in S : nextId[t] <= maxC /\ Pin_pin(t, h, s)
    \/ \E k \in 1..maxH : ExitScopes(t, k)

\* The registry of one thread.
Next == Step(1, MaxHandles, MaxCells, Slots)

Spec == Init /\ [][Next]_vars

\* Two threads, each with its own registry and its own traced slot.
NextThreads == \E t \in Threads : Step(t, MaxHandlesEach, MaxCellsEach, {1})

SpecThreads == Init /\ [][NextThreads]_vars

\* The conversions alone, on every input up to MaxLen elements.
InitConv ==
    /\ InitPins
    /\ traced \in RefSlices \cup DomSlices
    /\ untraced = <<>>

NextConv ==
    \/ ConvertMut
    \/ ConvertSlice
    \/ \E i \in 1..MaxLen : ConvertElem(i)

SpecConv == InitConv /\ [][NextConv]_vars

\* ------------------------------------------------------------------ claims
AllValid(ptrs) == \A i \in 1..Len(ptrs) : Valid(ptrs[i])
IdsOf(ptrs) == [i \in 1..Len(ptrs) |-> ptrs[i][3]]

\* C1 (LIFO nesting): on an initialized thread, as long as every cell was
\* destroyed only after all cells linked after it, the chain read from the
\* head along prev is exactly the live pinned cells, newest first, and every
\* pointer on it (the head included) refers to a cell that still exists.
C1_LifoNesting ==
    \A t \in Threads :
        (Initialized(t) /\ nested[t]) =>
            /\ IdsOf(ChainPtrs(t)) = LivePinned(t)
            /\ AllValid(ChainPtrs(t))

\* C1 witness: a cell was just destroyed in nesting order and two linked
\* cells remain on the chain.
C1_Witness ==
    /\ last.op = "exit" /\ last.visits # <<>>
    /\ nested[1]
    /\ Len(ChainPtrs(1)) = 2
    /\ IdsOf(ChainPtrs(1)) = LivePinned(1)

\* C2 (exact visitation), as claimed, for uses within the documented
\* contract (initialize first, one write per handle): every trace ends
\* normally having traced each live pinned cell once, newest first, and no
\* destroyed cell.
C2_ExactVisitation ==
    (last.op = "trace" /\ contract[last.t]) =>
        /\ last.res = "ok"
        /\ IdsOf(last.visits) = LivePinned(last.t)
        /\ AllValid(last.visits)

\* The cell linked first among those the k innermost scopes own.
FirstLinked(t, k) ==
    CHOOSE h \in Owning(t, k) :
        \A g \in Owning(t, k) : pins[t][h].cell.id <= pins[t][g].cell.id

\* C3 (restoration on exit), as claimed, for uses within the documented
\* contract: when the k innermost scopes are left, no pointer to a cell they
\* owned stays on the chain, and the head and the chain are what they were
\* immediately before the first of those cells was linked; leaving scopes
\* that own no cell changes nothing.
C3_Restoration ==
    [][ \A t \in Threads : \A k \in 1..Len(pins[t]) :
          (last'.op = "exit" /\ last'.t = t /\ last'.arg = k /\ contract[t]) =>
             IF Owning(t, k) = {}
             THEN PINNED_TRACEABLES' = PINNED_TRACEABLES
             ELSE /\ AllValid(ChainPtrs(t))'
                  /\ PINNED_TRACEABLES'[t].head = pins[t][FirstLinked(t, k)].cell.before.head
                  /\ ChainPtrs(t)' = pins[t][FirstLinked(t, k)].cell.before.chain ]_vars

\* C4 (double-initialize rejection): initialize on an initialized thread
\* panics and leaves the registry and every cell as they were.
C4_DoubleInitialize ==
    [][ \A t \in Threads :
          (last'.op = "initialize" /\ last'.t = t /\ Initialized(t)) =>
             /\ last'.res = "panic"
             /\ PINNED_TRACEABLES' = PINNED_TRACEABLES
             /\ pins' = pins ]_vars

\* C4 witness: a rejected initialize on a thread whose chain holds two cells.
C4_Witness ==
    /\ last.op = "initialize" /\ last.res = "panic"
    /\ Len(ChainPtrs(last.t)) = 2

\* Where the content first held by slot s of thread t is now.
InSlot(t, s) == slots[t][s] = <<Dom(s)>>
HoldersOf(t, s) == { a \in 1..Len(pins[t]) :
                       pins[t][a].cell.some /\ pins[t][a].cell.value = <<Dom(s)>> }
OnChain(t, a) == \E i \in 1..Len(ChainPtrs(t)) :
                    /\ Valid(ChainPtrs(t)[i])
                    /\ ChainPtrs(t)[i][1] = t /\ ChainPtrs(t)[i][2] = a

\* C5 (no visibility window), as claimed, for uses within the documented
\* contract: whenever trace can run on a thread, a value that still exists is
\* either in its traced slot and in no cell, or out of the slot and in exactly
\* one cell, which is linked in the chain.
C5_NoWindow ==
    \A t \in Threads, s \in Slots :
        (contract[t] /\ Initialized(t) /\ (InSlot(t, s) \/ HoldersOf(t, s) # {})) =>
            \/ InSlot(t, s) /\ HoldersOf(t, s) = {}
            \/ /\ ~InSlot(t, s)
               /\ Cardinality(HoldersOf(t, s)) = 1
               /\ \A a \in HoldersOf(t, s) : OnChain(t, a)

\* C6 (traversal is read-only): trace changes neither the initialization
\* flag, nor the head, nor any cell or its prev, nor the set of live cells.
C6_TraceReadOnly ==
    [][ (last'.op = "trace") =>
          /\ PINNED_TRACEABLES' = PINNED_TRACEABLES
          /\ pins' = pins ]_vars

\* C6 witness: a trace has run over a chain of two cells.
C6_Witness ==
    /\ last.op = "trace" /\ last.res = "ok"
    /\ Len(last.visits) = 2

\* C7 (empty-chain traversal), as claimed, for uses within the documented
\* contract: trace on an initialized thread with no live pinned cell ends
\* normally and traces nothing.
C7_EmptyTrace ==
    (last.op = "trace" /\ contract[last.t] /\ LivePinned(last.t) = <<>>) =>
        /\ last.res = "ok"
        /\ last.visits = <<>>

\* C8 (thread confinement): a step of one thread leaves the flag, head and
\* chain of every other thread as they were, and a trace visits only cells
\* pinned by the tracing thread.
C8_ThreadConfinement ==
    [][ \A u \in Threads :
          u # last'.t =>
            /\ PINNED_TRACEABLES'[u] = PINNED_TRACEABLES[u]
            /\ pins'[u] = pins[u]
            /\ (last'.op = "trace" =>
                  \A i \in 1..Len(last'.visits) : last'.visits[i][1] = last'.t) ]_vars

\* C8 witness: thread 2 traces its own cell while thread 1 has one linked.
C8_Witness ==
    /\ last.op = "trace" /\ last.t = 2 /\ Len(last.visits) = 1
    /\ Len(ChainPtrs(1)) = 1

\* C9 (scalar transfer round-trip): untraced_from(&mut slot) returns the
\* value the slot held and leaves the default in the slot.
C9_ScalarRoundTrip ==
    [][ (last'.op = "from_mut") =>
          /\ untraced' = traced
          /\ traced' = UntracedDefault ]_vars

\* C9 witness: a non-default value has been moved out of its slot.
C9_Witness ==
    /\ last.op = "from_mut"
    /\ Len(untraced) = MaxLen
    /\ traced = UntracedDefault

\* C10 (sequence order preservation): the converted sequence has the length
\* of the input and its i-th element is the conversion of the i-th input.
C10_SequenceOrder ==
    (last.op = "from_slice") =>
        /\ Len(untraced) = Len(traced)
        /\ \A i \in 1..Len(traced) : untraced[i] = UntracedFrom_elem(traced[i])

\* C10 witness: a converted sequence of borrowed objects whose first and
\* last elements differ.
C10_Witness ==
    /\ last.op = "from_slice"
    /\ Len(traced) = MaxLen
    /\ traced[1].kind = "ref"
    /\ traced[1] # traced[MaxLen]

\* C11 (registry lifecycle): a successful initialize takes the registry of
\* its thread from uninitialized to initialized with an empty chain, and no
\* step of any operation takes an initialized registry back to uninitialized.
C11_Lifecycle ==
    [][ \A t \in Threads :
          /\ (last'.op = "initialize" /\ last'.t = t /\ last'.res = "ok") =>
                /\ ~Initialized(t)
                /\ Initialized(t)'
                /\ HeadOf(t)' = None
                /\ ChainPtrs(t)' = <<>>
          /\ Initialized(t) => Initialized(t)' ]_vars

\* C11 witness: after initialize the chain went from empty to two cells and
\* back to empty, and the registry is still initialized.
C11_Witness ==
    /\ last.op = "exit" /\ Len(last.visits) = 2
    /\ Initialized(1)
    /\ HeadOf(1) = None

\* C12 (reference transfer is not a move): converting a borrowed object, a
\* borrowed Dom handle, or a borrowed slice of either leaves the source as it
\* was and yields, for each source element, a Dom handle to the same object.
C12_ReferenceNotMove ==
    [][ /\ (last'.op = "from_elem") =>
              /\ traced' = traced
              /\ Len(untraced') = 1
              /\ untraced'[1].kind = "dom"
              /\ untraced'[1].obj = traced[last'.arg].obj
        /\ (last'.op = "from_slice") =>
              /\ traced' = traced
              /\ Len(untraced') = Len(traced)
              /\ \A i \in 1..Len(traced) :
                    /\ untraced'[i].kind = "dom"
                    /\ untraced'[i].obj = traced[i].obj ]_vars

\* C12 witness: a slice of borrowed objects, the first two distinct, has been
\* converted and is still in place beside handles to the same objects.
C12_Witness ==
    /\ last.op = "from_slice"
    /\ Len(traced) = MaxLen
    /\ traced[1].kind = "ref"
    /\ traced[1].obj # traced[2].obj
    /\ untraced[1].obj = traced[1].obj
    /\ untraced[2].obj = traced[2].obj

\* C13 (cells are destroyed in reverse order of linking), as claimed, for
\* uses within the documented contract: handles are destroyed in reverse order
\* of creation (the k innermost scopes are left), and for every order in which
\* they were written each cell they own is the registry head at the moment it
\* is destroyed, so that its destruction leaves the head it found when linked.
C13_ReverseOrder ==
    [][ \A t \in Threads : \A k \in 1..Len(pins[t]) :
          (last'.op = "exit" /\ last'.t = t /\ last'.arg = k /\ contract[t]) =>
             \A h \in Owning(t, k) :
                /\ HeadAfterDrops(t, Len(pins[t]), h + 1, HeadOf(t))
                     = PtrTo(t, h, pins[t][h].cell.id)
                /\ HeadAfterDrops(t, Len(pins[t]), h, HeadOf(t))
                     = pins[t][h].cell.before.head ]_vars

\* C14 (effect of a write): the first write of handle h on an initialized
\* registry creates one cell in h whose prev is the old head, makes that cell
\* the head, returns a view into it of the value moved out of the slot, puts
\* it in front of the old chain (one longer), and leaves every other handle
\* and cell, prev and value included, as it was.
C14_WriteEffect ==
    [][ \A t \in Threads : \A h \in 1..Len(pins[t]) :
          ( /\ last'.op = "pin" /\ last'.t = t /\ last'.res = "ok"
            /\ last'.visits[1][2] = h
            /\ Initialized(t) /\ ~pins[t][h].cell.some ) =>
             /\ pins'[t][h].cell.some
             /\ pins'[t][h].cell.prev = HeadOf(t)
             /\ pins'[t][h].cell.value = slots[t][last'.arg]
             /\ HeadOf(t)' = PtrTo(t, h, pins'[t][h].cell.id)
             /\ Valid(HeadOf(t))'
             /\ last'.visits = <<HeadOf(t)'>>
             /\ ChainPtrs(t)' = <<HeadOf(t)'>> \o ChainPtrs(t)
             /\ Len(ChainPtrs(t)') = Len(ChainPtrs(t)) + 1
             /\ Len(pins'[t]) = Len(pins[t])
             /\ \A a \in 1..Len(pins[t]) : a # h => pins'[t][a] = pins[t][a] ]_vars

\* C14 witness: a first write has just linked a cell in front of two others.
C14_Witness ==
    /\ last.op = "pin" /\ last.res = "ok"
    /\ contract[1]
    /\ Len(ChainPtrs(1)) = 3
    /\ AllValid(ChainPtrs(1))
    /\ CellAt(HeadOf(1)).prev = ChainPtrs(1)[2]

\* C15 (back-reference stability): a linked cell holds as prev the head it
\* found when it was linked, and every step of any operation (writes of other
\* handles, destructions of other cells, trace) that leaves the cell in
\* existence leaves its prev as it was.
C15_PrevStable ==
    [][ \A t \in Threads : \A a \in 1..Len(pins[t]) :
          LET c == pins[t][a].cell
          IN  (c.some /\ c.linked) =>
                /\ c.prev = c.before.head
                /\ ( /\ a <= Len(pins'[t])
                     /\ pins'[t][a].cell.some
                     /\ pins'[t][a].cell.id = c.id ) =>
                       pins'[t][a].cell.prev = c.prev ]_vars

\* C15 witness: the first cell is still linked with the prev it received
\* after two other cells were linked and destroyed in an inner scope.
C15_Witness ==
    /\ last.op = "exit" /\ last.visits # <<>>
    /\ contract[1]
    /\ Len(pins[1]) = 1
    /\ pins[1][1].cell.some /\ pins[1][1].cell.linked /\ pins[1][1].cell.id = 1
    /\ nextId[1] = 4
    /\ pins[1][1].cell.prev = pins[1][1].cell.before.head

\* C16 (second write on a handle): when Pin::pin runs again on handle h
\* whose cell is the head, the old cell is dropped first (the head goes back
\* to its prev) and the new cell is linked then: the chain holds exactly one
\* cell of h, the new one, with the newly converted value and the prev of
\* the old cell, in place of the old cell, and is as long as before.
C16_SecondWrite ==
    [][ \A t \in Threads : \A h \in 1..Len(pins[t]) :
          LET old == pins[t][h].cell
              new == pins'[t][h].cell
          IN  ( /\ last'.op = "pin" /\ last'.t = t /\ last'.res = "ok"
                /\ last'.visits[1][2] = h
                /\ Initialized(t) /\ old.some
                /\ HeadOf(t) = PtrTo(t, h, old.id) ) =>
                 /\ new.some /\ new.id # old.id
                 /\ new.value = slots[t][last'.arg]
                 /\ new.prev = old.prev
                 /\ HeadOf(t)' = PtrTo(t, h, new.id)
                 /\ ChainPtrs(t)' = <<HeadOf(t)'>> \o Tail(ChainPtrs(t))
                 /\ Len(ChainPtrs(t)') = Len(ChainPtrs(t))
                 /\ Cardinality({ i \in 1..Len(ChainPtrs(t)') :
                                    Valid(ChainPtrs(t)[i])' /\ ChainPtrs(t)'[i][2] = h }) = 1
                 /\ \A i \in 1..Len(ChainPtrs(t)') :
                        ChainPtrs(t)'[i] # PtrTo(t, h, old.id) ]_vars

\* C16 witness: a second write has just replaced the head cell, in front of
\* another linked cell.
C16_Witness ==
    /\ last.op = "pin" /\ last.res = "ok"
    /\ Len(last.visits) = 2
    /\ nested[1]
    /\ HeadOf(1) = last.visits[1]
    /\ Len(ChainPtrs(1)) = 2
    /\ AllValid(ChainPtrs(1))

\* C17 (operations before initialization fail): on a thread where initialize
\* has not run, trace and Pin::pin each end in a panic (or in the abort of a
\* panic met while unwinding), trace no value, and leave the registry
\* uninitialized with no head; initialize on such a thread succeeds.
C17_BeforeInitialize ==
    [][ \A t \in Threads :
          (last'.t = t /\ ~Initialized(t)) =>
             /\ (last'.op \in {"trace", "pin"}) =>
                   /\ last'.res \in {"panic", "abort"}
                   /\ last'.visits = <<>>
                   /\ PINNED_TRACEABLES' = PINNED_TRACEABLES
                   /\ ~Initialized(t)' /\ HeadOf(t)' = None
             /\ (last'.op = "initialize") =>
                   /\ last'.res = "ok"
                   /\ Initialized(t)' ]_vars

\* C17 witness: initialize has just succeeded on a thread where a write had
\* failed before it, leaving its cell unlinked.
C17_Witness ==
    /\ last.op = "initialize" /\ last.res = "ok"
    /\ \E a \in 1..Len(pins[1]) : pins[1][a].cell.some /\ ~pins[1][a].cell.linked

\* C18 (traversal terminates), as claimed, for uses within the documented
\* contract (initialize, then first writes of distinct handles, handles
\* destroyed innermost first): the chain is acyclic, so every trace ends
\* normally after as many visits as there are live cells.
C18_Terminates ==
    \A t \in Threads :
        (contract[t] /\ Initialized(t)) =>
            \A r \in TraceRuns(HeadOf(t), TraceFuel(t)) :
                /\ r.res = "ok"
                /\ Len(r.visits) = Cardinality(LiveIds(t))

====
